---- MODULE Spec2Model ----
(***************************************************************************)
(* A model of the console assistant: the NoteBook of src/notes.py, the     *)
(* Record / AddressBook of src/models.py and the command loop with its     *)
(* persistence of src/main.py.                                             *)
(*                                                                         *)
(* Python strings are sequences of one-character strings, so that split,   *)
(* join, startswith, isdigit and the e-mail pattern are computed as the    *)
(* code computes them.                                                     *)
(***************************************************************************)
EXTENDS Integers, Sequences, FiniteSets, TLC

VARIABLES
    focus,      \* what the caller does: "notes", it works on the NoteBook; "book", it
                \* changes the AddressBook and its Records; "phones", it changes the
                \* phones of a Record, with digits that are not decimal too; "query",
                \* it fills the AddressBook and asks search and get_upcoming_birthdays
    pads_year,  \* the platform: whether strftime writes %Y with four digits for a year
                \* below 1000 (the C library of Linux does not)
    notebook,   \* the NoteBook: next_id, data (id -> Note object), objs (Note object -> its fields)
    assigned,   \* history: the ids add_note assigned, in order
    ever_ids,   \* history: every key that was ever in notebook.data
    nlast,      \* history: the last NoteBook call, its arguments and its outcome
    nprev,      \* history: the NoteBook as it was before the last call
    book,       \* the AddressBook: data (name -> Record)
    blast,      \* history: the last Record / AddressBook call, its arguments and its outcome
    bprev,      \* history: the AddressBook as it was before the last call
    cli_book,       \* main(): book, name -> Record of src/main.py
    cli_notebook,   \* main(): notebook
    file,           \* the content of DATA_FILE, or NoFile
    pc,             \* "off" before a start, "running" in the loop, "exited" after exit/close,
                    \* "crashed" when an exception left main()
    clast,          \* history: the last command line read and what was printed for it
    cmds            \* history: the number of command lines read so far

nvars == <<notebook, assigned, ever_ids, nlast, nprev>>
bvars == <<book, blast, bprev>>
cvars == <<cli_book, cli_notebook, file, pc, clast, cmds>>

(***************************************************************************)
(* Bounds of the model.                                                    *)
(***************************************************************************)
MaxId == 2          \* add_note is called while next_id <= MaxId
MaxPhones == 2      \* add_phone is called while the record has fewer than MaxPhones phones
MaxCmds == 4        \* the command loop reads at most MaxCmds lines in all

(***************************************************************************)
(* Python str                                                              *)
(***************************************************************************)
Whitespace == {" ", "\t", "\n"}

RECURSIVE str_split_from(_, _, _, _)
str_split_from(s, i, cur, acc) ==
    IF i > Len(s)
    THEN IF cur = <<>> THEN acc ELSE Append(acc, cur)
    ELSE IF s[i] \in Whitespace
         THEN str_split_from(s, i + 1, <<>>, IF cur = <<>> THEN acc ELSE Append(acc, cur))
         ELSE str_split_from(s, i + 1, Append(cur, s[i]), acc)

\* s.split(): the maximal runs of non-whitespace characters, in order
str_split(s) == str_split_from(s, 1, <<>>, <<>>)

\* w.startswith(c), c a single character
str_startswith(w, c) == Len(w) >= 1 /\ w[1] = c

RECURSIVE str_join(_, _)
\* sep.join(words)
str_join(sep, words) ==
    IF words = <<>> THEN <<>>
    ELSE IF Len(words) = 1 THEN words[1]
    ELSE words[1] \o sep \o str_join(sep, Tail(words))

RECURSIVE str_lstrip(_)
str_lstrip(s) ==
    IF s # <<>> /\ s[1] \in Whitespace THEN str_lstrip(Tail(s)) ELSE s

RECURSIVE str_rstrip(_)
str_rstrip(s) ==
    IF s # <<>> /\ s[Len(s)] \in Whitespace
    THEN str_rstrip(SubSeq(s, 1, Len(s) - 1)) ELSE s

\* s.strip()
str_strip(s) == str_rstrip(str_lstrip(s))

(***************************************************************************)
(* datetime: a time is its second and its microsecond.  The persisted      *)
(* format '%Y-%m-%d %H:%M:%S' has no microsecond field.                    *)
(***************************************************************************)
\* the values datetime.now() is read with
Clock ==
    { [sec |-> 0, usec |-> 0],
      [sec |-> 0, usec |-> 1],
      [sec |-> 1, usec |-> 0] }

\* created.strftime('%Y-%m-%d %H:%M:%S'): the text names the second only
strftime_seconds(t) == [text_of_sec |-> t.sec]

\* datetime.strptime(s, '%Y-%m-%d %H:%M:%S'): microsecond is 0
strptime_seconds(s) == [sec |-> s.text_of_sec, usec |-> 0]

(***************************************************************************)
(* Note (src/notes.py)                                                     *)
(***************************************************************************)
NoneId == 0     \* Note.id = None, before a NoteBook assigns the id

Note_is_tag(word) == str_startswith(word, "#")
Note_not_tag(word) == ~str_startswith(word, "#")

\* Note.__init__(text) at time now
Note_init(text, now) ==
    LET words == str_split(text)
    IN  [tags    |-> SelectSeq(words, Note_is_tag),
         text    |-> str_join(<<" ">>, SelectSeq(words, Note_not_tag)),
         id      |-> NoneId,
         created |-> now]

\* a slip: keeps the tags that were there and appends the new ones
Note_extract_tags_merging(note, text) ==
    LET words == SelectSeq(str_split(text), Note_is_tag)
    IN  note.tags \o [i \in 1..Len(words) |-> str_strip(words[i])]

\* Note._extract_tags(text)
Note_extract_tags(note, text) ==
    LET words == SelectSeq(str_split(text), Note_is_tag)
    IN  [i \in 1..Len(words) |-> str_strip(words[i])]

\* Note.to_dict()
Note_to_dict(note) ==
    [id      |-> note.id,
     text    |-> note.text,
     created |-> strftime_seconds(note.created),
     tags    |-> note.tags]

\* Note.from_dict(data); now is the time read by the constructor it calls
Note_from_dict(d, now) ==
    [Note_init(d.text, now) EXCEPT
        !.id = d.id,
        !.created = strptime_seconds(d.created),
        !.tags = d.tags]

(***************************************************************************)
(* NoteBook (src/notes.py).  A NoteBook value is                           *)
(*   next_id : the counter                                                 *)
(*   data    : key -> reference of the Note object stored under the key    *)
(*   objs    : reference -> the fields of that Note object                 *)
(* Two keys may hold the same object: add_note takes any Note object.      *)
(***************************************************************************)
EmptyMap == [k \in {} |-> 0]

MapPut(f, k, v) == [x \in DOMAIN f \cup {k} |-> IF x = k THEN v ELSE f[x]]
MapDel(f, k) == [x \in DOMAIN f \ {k} |-> f[x]]
Range(f) == {f[x] : x \in DOMAIN f}

\* the objects no key refers to are dropped from the model's heap
Reachable(nb) == [nb EXCEPT !.objs = [r \in Range(nb.data) |-> nb.objs[r]]]

\* NoteBook.__init__
NoteBook_init == [next_id |-> 1, data |-> EmptyMap, objs |-> EmptyMap]

\* the Note stored under key k
NoteAt(nb, k) == nb.objs[nb.data[k]]

\* a slip: the counter is not advanced
NoteBook_add_note_no_increment(nb, ref) ==
    [nb EXCEPT
        !.objs = [@ EXCEPT ![ref].id = nb.next_id],
        !.data = MapPut(@, nb.next_id, ref)]

\* NoteBook.add_note(note), note the object ref (already in objs)
NoteBook_add_note(nb, ref) ==
    [nb EXCEPT
        !.objs = [@ EXCEPT ![ref].id = nb.next_id],
        !.data = MapPut(@, nb.next_id, ref),
        !.next_id = @ + 1]

\* a slip: an absent id is taken for the newest note instead of raising
NoteBook_edit_note_lenient(nb, note_id, new_text) ==
    LET k == IF note_id \in DOMAIN nb.data THEN note_id ELSE nb.next_id - 1
    IN  IF k \in DOMAIN nb.data
        THEN [nb  |-> [nb EXCEPT
                        !.objs = [@ EXCEPT
                            ![nb.data[k]].text = new_text,
                            ![nb.data[k]].tags = Note_extract_tags(nb.objs[nb.data[k]], new_text)]],
              res |-> "ok"]
        ELSE [nb |-> nb, res |-> "KeyError"]

\* NoteBook.edit_note(note_id, new_text): the NoteBook afterwards and the outcome
NoteBook_edit_note(nb, note_id, new_text) ==
    IF note_id \in DOMAIN nb.data
    THEN [nb  |-> [nb EXCEPT
                    !.objs = [@ EXCEPT
                        ![nb.data[note_id]].text = new_text,
                        ![nb.data[note_id]].tags =
                            Note_extract_tags(nb.objs[nb.data[note_id]], new_text)]],
          res |-> "ok"]
    ELSE [nb |-> nb, res |-> "KeyError"]

\* a slip: the counter is wound back when the newest id is deleted
NoteBook_delete_note_rewinding(nb, note_id) ==
    IF note_id \in DOMAIN nb.data
    THEN [nb  |-> Reachable([nb EXCEPT
                    !.data = MapDel(@, note_id),
                    !.next_id = IF note_id = @ - 1 THEN note_id ELSE @]),
          res |-> "ok"]
    ELSE [nb |-> nb, res |-> "KeyError"]

\* NoteBook.delete_note(note_id): the NoteBook afterwards and the outcome
NoteBook_delete_note(nb, note_id) ==
    IF note_id \in DOMAIN nb.data
    THEN [nb |-> Reachable([nb EXCEPT !.data = MapDel(@, note_id)]), res |-> "ok"]
    ELSE [nb |-> nb, res |-> "KeyError"]

\* str(k) for a key k >= 0, and int(s) for its text
Digits == <<"0", "1", "2", "3", "4", "5", "6", "7", "8", "9">>

RECURSIVE int_to_str(_)
int_to_str(n) ==
    IF n < 10 THEN <<Digits[n + 1]>>
    ELSE Append(int_to_str(n \div 10), Digits[(n % 10) + 1])

DigitValue(c) == CHOOSE d \in 0..9 : Digits[d + 1] = c

RECURSIVE str_to_int(_)
str_to_int(s) ==
    IF Len(s) = 1 THEN DigitValue(s[1])
    ELSE 10 * str_to_int(SubSeq(s, 1, Len(s) - 1)) + DigitValue(s[Len(s)])

\* NoteBook.to_dict()
NoteBook_to_dict(nb) ==
    [next_id |-> nb.next_id,
     notes   |-> [s \in {int_to_str(k) : k \in DOMAIN nb.data} |->
                    Note_to_dict(NoteAt(nb, str_to_int(s)))]]

\* NoteBook.from_dict(data): every entry becomes a new Note object
NoteBook_from_dict(d, now) ==
    [next_id |-> d.next_id,
     data    |-> [k \in {str_to_int(s) : s \in DOMAIN d.notes} |-> k],
     objs    |-> [k \in {str_to_int(s) : s \in DOMAIN d.notes} |->
                    Note_from_dict(d.notes[int_to_str(k)], now)]]

(***************************************************************************)
(* Field validators (src/models.py).  A Python object is a record with     *)
(* its type and its value; None is PyNone.                                 *)
(***************************************************************************)
PyNone == [type |-> "NoneType"]

\* bool(x) for None, a str and a Field object (an object is always true)
Truthy(x) == x # PyNone /\ x # <<>>

AsciiDigits == {"0", "1", "2", "3", "4", "5", "6", "7", "8", "9"}

\* the character U+00B2, SUPERSCRIPT TWO: a digit for str.isdigit(), not a
\* decimal digit (str.isdecimal() and \d reject it, int() cannot read it)
Superscript2 == "^2"
Letters == {"a", "b", "c", "k", "x", "y", "A", "B"}
WordChars == Letters \cup AsciiDigits \cup {"_"}      \* \w
LocalChars == WordChars \cup {".", "-"}               \* [\w\.-]

\* s.isdigit(), over the model's alphabet
str_isdigit(s) == s # <<>> /\ \A i \in 1..Len(s) : s[i] \in AsciiDigits \cup {Superscript2}

\* a non-empty run of \d, over the model's alphabet
str_isdecimal(s) == s # <<>> /\ \A i \in 1..Len(s) : s[i] \in AsciiDigits

PhoneLen == 10

\* a slip: the length is not tested
Phone_valid_any_length(value) == str_isdigit(value)

\* Phone.__init__: the test it raises ValueError on
Phone_valid(value) == str_isdigit(value) /\ Len(value) = PhoneLen

\* ^[\w\.-]+@[\w\.-]+\.\w+ matched against the whole of t
Email_pattern_whole(t) ==
    \E p \in 1..Len(t), q \in 1..Len(t) :
        /\ 1 < p /\ p + 1 < q /\ q < Len(t)
        /\ t[p] = "@" /\ t[q] = "."
        /\ \A i \in 1..(p - 1) : t[i] \in LocalChars
        /\ \A i \in (p + 1)..(q - 1) : t[i] \in LocalChars
        /\ \A i \in (q + 1)..Len(t) : t[i] \in WordChars

\* re.match(r"^[\w\.-]+@[\w\.-]+\.\w+$", value): $ also matches before a final newline
Email_valid(value) ==
    \/ Email_pattern_whole(value)
    \/ /\ value # <<>>
       /\ value[Len(value)] = "\n"
       /\ Email_pattern_whole(SubSeq(value, 1, Len(value) - 1))

\* Address.__init__: the test it raises ValueError on (value a str)
Address_valid(value) == value # <<>>

Field(type, value) == [type |-> type, value |-> value]

\* a str among the values of a document, beside None
Str(s) == [type |-> "str", value |-> s]

\* bool(x) for None, a str and an object
PyTruthy(x) ==
    IF x.type = "NoneType" THEN FALSE
    ELSE IF x.type = "str" THEN x.value # <<>>
    ELSE TRUE

(***************************************************************************)
(* Birthday: datetime.strptime(value, "%d.%m.%Y").date()                   *)
(***************************************************************************)
RECURSIVE str_split_on(_, _, _, _)
\* s.split(sep) from position i on, cur the part being read
str_split_on(s, sep, i, cur) ==
    IF i > Len(s) THEN <<cur>>
    ELSE IF s[i] = sep THEN <<cur>> \o str_split_on(s, sep, i + 1, <<>>)
    ELSE str_split_on(s, sep, i + 1, Append(cur, s[i]))

IsLeap(y) == (y % 4 = 0 /\ y % 100 # 0) \/ y % 400 = 0

DaysInMonth(y, m) ==
    IF m = 2 THEN (IF IsLeap(y) THEN 29 ELSE 28)
    ELSE IF m \in {4, 6, 9, 11} THEN 30 ELSE 31

\* %d: 3[0-1]|[1-2]\d|0[1-9]|[1-9]| [1-9]
DayText(p) ==
    \/ Len(p) \in {1, 2} /\ str_isdecimal(p) /\ str_to_int(p) \in 1..31
    \/ Len(p) = 2 /\ p[1] = " " /\ p[2] \in AsciiDigits \ {"0"}

\* %m: 1[0-2]|0[1-9]|[1-9]
MonthText(p) == Len(p) \in {1, 2} /\ str_isdecimal(p) /\ str_to_int(p) \in 1..12

\* %Y: \d\d\d\d, and date() wants a year from 1
YearText(p) == Len(p) = 4 /\ str_isdecimal(p) /\ str_to_int(p) >= 1

Birthday_parses(value) ==
    LET parts == str_split_on(value, ".", 1, <<>>)
    IN  /\ Len(parts) = 3
        /\ DayText(parts[1]) /\ MonthText(parts[2]) /\ YearText(parts[3])
        /\ str_to_int(str_lstrip(parts[1]))
              <= DaysInMonth(str_to_int(parts[3]), str_to_int(parts[2]))

\* the date a parsing text denotes
Birthday_date(value) ==
    LET parts == str_split_on(value, ".", 1, <<>>)
    IN  [year  |-> str_to_int(parts[3]),
         month |-> str_to_int(parts[2]),
         day   |-> str_to_int(str_lstrip(parts[1]))]

\* %d and %m of strftime: two digits
Pad2(n) == IF n < 10 THEN <<"0">> \o int_to_str(n) ELSE int_to_str(n)

RECURSIVE ZeroFill(_, _)
ZeroFill(s, width) == IF Len(s) >= width THEN s ELSE ZeroFill(<<"0">> \o s, width)

\* %Y of strftime: the year as the platform writes it
strftime_Y(year) == IF pads_year THEN ZeroFill(int_to_str(year), 4) ELSE int_to_str(year)

\* d.strftime("%d.%m.%Y")
strftime_dmY(d) == Pad2(d.day) \o <<".">> \o Pad2(d.month) \o <<".">> \o strftime_Y(d.year)

\* Birthday.to_dict()
Birthday_to_dict(b) == strftime_dmY(b.value)

(***************************************************************************)
(* Record (src/models.py).  Every operation gives the record afterwards    *)
(* and the outcome: the exception raised ("" when none), its message and   *)
(* the value returned.                                                     *)
(***************************************************************************)
Done(rec) == [rec |-> rec, exc |-> "", msg |-> "", ret |-> PyNone]
Raise(rec, exc, msg) == [rec |-> rec, exc |-> exc, msg |-> msg, ret |-> PyNone]

\* Record.__init__(name)
Record_init(name) ==
    [name     |-> Field("Name", name),
     phones   |-> <<>>,
     birthday |-> PyNone,
     email    |-> PyNone,
     address  |-> PyNone]

\* Record.add_phone(phone_number)
Record_add_phone(rec, phone_number) ==
    IF Phone_valid(phone_number)
    THEN Done([rec EXCEPT !.phones = Append(@, Field("Phone", phone_number))])
    ELSE Raise(rec, "ValueError", "Phone number must be a 10-digit string of numbers.")

\* Record.add_birthday(birthday), birthday a str
Record_add_birthday(rec, birthday) ==
    IF Birthday_parses(birthday)
    THEN Done([rec EXCEPT !.birthday = Field("Birthday", Birthday_date(birthday))])
    ELSE Raise(rec, "ValueError", "Invalid date format. Use DD.MM.YYYY")

\* Record.set_email(email_str)
Record_set_email(rec, email_str) ==
    IF Truthy(email_str)
    THEN IF Email_valid(email_str)
         THEN Done([rec EXCEPT !.email = Field("Email", email_str)])
         ELSE Raise(rec, "ValueError", "Invalid email format")
    ELSE Done(rec)

\* Record.set_address(address_str)
Record_set_address(rec, address_str) ==
    IF Truthy(address_str)
    THEN IF Address_valid(address_str)
         THEN Done([rec EXCEPT !.address = Field("Address", address_str)])
         ELSE Raise(rec, "ValueError", "Address must be a non-empty string")
    ELSE Done(rec)

\* Record.edit_email(new_email)
Record_edit_email(rec, new_email) == Record_set_email(rec, new_email)

\* Record.edit_address(new_address)
Record_edit_address(rec, new_address) == Record_set_address(rec, new_address)

\* a slip: the last phone with the value is returned
Record_find_phone_last(rec, phone_number) ==
    IF \E i \in 1..Len(rec.phones) : rec.phones[i].value = phone_number
    THEN CHOOSE i \in 1..Len(rec.phones) :
            /\ rec.phones[i].value = phone_number
            /\ \A j \in (i + 1)..Len(rec.phones) : rec.phones[j].value # phone_number
    ELSE 0

\* Record.find_phone(phone_number): the position of the Phone object returned, 0 for None
Record_find_phone(rec, phone_number) ==
    IF \E i \in 1..Len(rec.phones) : rec.phones[i].value = phone_number
    THEN CHOOSE i \in 1..Len(rec.phones) :
            /\ rec.phones[i].value = phone_number
            /\ \A j \in 1..(i - 1) : rec.phones[j].value # phone_number
    ELSE 0

\* list.remove(x) for the element at position i
ListRemoveAt(xs, i) == [j \in 1..(Len(xs) - 1) |-> IF j < i THEN xs[j] ELSE xs[j + 1]]

\* Record.remove_phone(phone_number)
Record_remove_phone(rec, phone_number) ==
    LET i == Record_find_phone(rec, phone_number)
    IN  IF i # 0
        THEN Done([rec EXCEPT !.phones = ListRemoveAt(@, i)])
        ELSE Raise(rec, "ValueError", "Phone number not found.")

\* a slip: the value is assigned before it is validated
Record_edit_phone_unvalidated(rec, old_phone_number, new_phone_number) ==
    LET i == Record_find_phone(rec, old_phone_number)
    IN  IF i # 0
        THEN IF Phone_valid(new_phone_number)
             THEN Done([rec EXCEPT !.phones[i].value = new_phone_number])
             ELSE Raise([rec EXCEPT !.phones[i].value = new_phone_number], "ValueError",
                        "Phone number must be a 10-digit string of numbers.")
        ELSE Raise(rec, "ValueError", "Phone number not found.")

\* Record.edit_phone(old_phone_number, new_phone_number)
Record_edit_phone(rec, old_phone_number, new_phone_number) ==
    LET i == Record_find_phone(rec, old_phone_number)
    IN  IF i # 0
        THEN IF Phone_valid(new_phone_number)
             THEN Done([rec EXCEPT !.phones[i].value = new_phone_number])
             ELSE Raise(rec, "ValueError",
                        "Phone number must be a 10-digit string of numbers.")
        ELSE Raise(rec, "ValueError", "Phone number not found.")

\* Record.to_dict(): the values are raw strings, None for a field not set
Record_to_dict(rec) ==
    [name     |-> rec.name.value,
     phones   |-> [i \in 1..Len(rec.phones) |-> rec.phones[i].value],
     birthday |-> IF rec.birthday # PyNone THEN Str(Birthday_to_dict(rec.birthday)) ELSE PyNone,
     email    |-> IF rec.email # PyNone THEN Str(rec.email.value) ELSE PyNone,
     address  |-> IF rec.address # PyNone THEN Str(rec.address.value) ELSE PyNone]

RECURSIVE Record_add_phones(_, _, _)
\* for phone_number in data.get("phones", []): record.add_phone(phone_number)
Record_add_phones(r, phones, i) ==
    IF i > Len(phones) \/ r.exc # "" THEN r
    ELSE Record_add_phones(Record_add_phone(r.rec, phones[i]), phones, i + 1)

\* Record.from_dict(data): the record, or the ValueError of the first validator that fails
Record_from_dict(d) ==
    LET r0 == Done(Record_init(d.name))
        r1 == Record_add_phones(r0, d.phones, 1)
        r2 == IF r1.exc = "" /\ PyTruthy(d.birthday)
              THEN Record_add_birthday(r1.rec, d.birthday.value) ELSE r1
        r3 == IF r2.exc = "" /\ PyTruthy(d.email)
              THEN Record_set_email(r2.rec, d.email.value) ELSE r2
        r4 == IF r3.exc = "" /\ PyTruthy(d.address)
              THEN Record_set_address(r3.rec, d.address.value) ELSE r3
    IN  r4

(***************************************************************************)
(* AddressBook (src/models.py): data, name -> Record                       *)
(***************************************************************************)
\* a slip: the phones of the record that was there are kept
AddressBook_add_record_merging(data, record) ==
    IF record.name.value \in DOMAIN data
    THEN MapPut(data, record.name.value,
                [record EXCEPT !.phones = data[record.name.value].phones \o @])
    ELSE MapPut(data, record.name.value, record)

\* AddressBook.add_record(record)
AddressBook_add_record(data, record) == MapPut(data, record.name.value, record)

\* a slip: an absent name raises
AddressBook_find_raising(data, name) ==
    IF name \in DOMAIN data
    THEN [exc |-> "", ret |-> data[name]]
    ELSE [exc |-> "KeyError", ret |-> PyNone]

\* AddressBook.find(name): self.data.get(name)
AddressBook_find(data, name) ==
    [exc |-> "", ret |-> IF name \in DOMAIN data THEN data[name] ELSE PyNone]

\* a slip: an absent name removes the entry added first
AddressBook_delete_some(data, name) ==
    IF name \in DOMAIN data THEN MapDel(data, name)
    ELSE IF DOMAIN data = {} THEN data
    ELSE MapDel(data, CHOOSE n \in DOMAIN data : TRUE)

\* AddressBook.delete(name)
AddressBook_delete(data, name) ==
    IF name \in DOMAIN data THEN MapDel(data, name) ELSE data

(***************************************************************************)
(* datetime.date: the proleptic Gregorian calendar, day 1 is 0001-01-01    *)
(***************************************************************************)
Date(y, m, d) == [year |-> y, month |-> m, day |-> d]

\* the days before January 1st of year y
DaysBeforeYear(y) ==
    (y - 1) * 365 + ((y - 1) \div 4) - ((y - 1) \div 100) + ((y - 1) \div 400)

RECURSIVE DaysBeforeMonth(_, _)
\* the days of year y before the first day of month m
DaysBeforeMonth(y, m) ==
    IF m = 1 THEN 0 ELSE DaysBeforeMonth(y, m - 1) + DaysInMonth(y, m - 1)

\* d.toordinal()
date_toordinal(d) == DaysBeforeYear(d.year) + DaysBeforeMonth(d.year, d.month) + d.day

\* date.fromordinal(n)
date_fromordinal(n) ==
    LET y == CHOOSE y \in (n \div 366)..((n \div 365) + 1) :
                DaysBeforeYear(y) < n /\ n <= DaysBeforeYear(y + 1)
        k == n - DaysBeforeYear(y)
        m == CHOOSE m \in 1..12 :
                DaysBeforeMonth(y, m) < k /\ k <= DaysBeforeMonth(y, m) + DaysInMonth(y, m)
    IN  Date(y, m, k - DaysBeforeMonth(y, m))

\* d.weekday(): Monday is 0, Sunday is 6
date_weekday(d) == (date_toordinal(d) + 6) % 7

\* d + timedelta(days=n)
date_add_days(d, n) == date_fromordinal(date_toordinal(d) + n)

\* whether d.replace(year=y) is a date; it raises ValueError when it is not
date_replace_year_ok(d, y) == d.day <= DaysInMonth(y, d.month)

\* d.replace(year=y)
date_replace_year(d, y) == Date(y, d.month, d.day)

RECURSIVE DictOrder(_)
\* the keys of a dict as a list.  The model keeps no insertion order; it
\* takes the keys in one fixed order.
DictOrder(keys) ==
    IF keys = {} THEN <<>>
    ELSE LET k == CHOOSE k \in keys : TRUE
         IN  <<k>> \o DictOrder(keys \ {k})

\* the body of the loop of get_upcoming_birthdays for a record with a birthday
\* whose month and day exist this year: the entries it appends
upcoming_entry(record, today, days) ==
    LET birthday_this_year == date_replace_year(record.birthday.value, today.year)
        delta_days == date_toordinal(birthday_this_year) - date_toordinal(today)
        wd == date_weekday(birthday_this_year)
        congratulation_date ==
            IF wd >= 5 THEN date_add_days(birthday_this_year, 7 - wd)
            ELSE birthday_this_year
    IN  IF 0 <= delta_days /\ delta_days <= days
        THEN << [name |-> record.name.value,
                 congratulation_date |-> strftime_dmY(congratulation_date)] >>
        ELSE <<>>

RECURSIVE upcoming_loop(_, _, _, _)
upcoming_loop(data, names, today, days) ==
    IF names = <<>> THEN <<>>
    ELSE (IF data[Head(names)].birthday # PyNone
          THEN upcoming_entry(data[Head(names)], today, days) ELSE <<>>)
         \o upcoming_loop(data, Tail(names), today, days)

\* AddressBook.get_upcoming_birthdays(days), today the value of datetime.today().date():
\* the list returned, or the ValueError of bday.replace(year=today.year)
AddressBook_get_upcoming_birthdays(data, today, days) ==
    IF \E n \in DOMAIN data :
            /\ data[n].birthday # PyNone
            /\ ~date_replace_year_ok(data[n].birthday.value, today.year)
    THEN [exc |-> "ValueError", msg |-> "day is out of range for month", ret |-> PyNone]
    ELSE [exc |-> "", msg |-> "",
          ret |-> upcoming_loop(data, DictOrder(DOMAIN data), today, days)]

\* c.lower() for a character: the letters the model's texts have in upper case
LowerOf(c) ==
    IF c = "A" THEN "a" ELSE IF c = "B" THEN "b" ELSE IF c = "K" THEN "k" ELSE c

\* s.lower()
str_lower(s) == [i \in 1..Len(s) |-> LowerOf(s[i])]

\* q in s, for two str
str_in(q, s) ==
    \E k \in 0..(Len(s) - Len(q)) : \A i \in 1..Len(q) : s[k + i] = q[i]

RECURSIVE search_phones(_, _, _, _)
\* for p in rec.phones: if q in p.value: results.append(rec); break
search_phones(rec, q, i, found) ==
    IF i > Len(rec.phones) THEN found
    ELSE IF str_in(q, rec.phones[i].value) THEN Append(found, rec)
    ELSE search_phones(rec, q, i + 1, found)

\* the body of the loop of search: what it appends for one record
search_record(rec, q) ==
    IF str_in(q, str_lower(rec.name.value)) THEN <<rec>>
    ELSE IF rec.email # PyNone /\ str_in(q, str_lower(rec.email.value)) THEN <<rec>>
    ELSE IF rec.address # PyNone /\ str_in(q, str_lower(rec.address.value)) THEN <<rec>>
    ELSE search_phones(rec, q, 1, <<>>)

RECURSIVE search_loop(_, _, _)
search_loop(data, names, q) ==
    IF names = <<>> THEN <<>>
    ELSE search_record(data[Head(names)], q) \o search_loop(data, Tail(names), q)

\* a slip: the query is compared as it was typed
AddressBook_search_raw_query(data, query) ==
    search_loop(data, DictOrder(DOMAIN data), query)

\* AddressBook.search(query), query a str: the list returned
AddressBook_search(data, query) ==
    search_loop(data, DictOrder(DOMAIN data), str_lower(query))

(***************************************************************************)
(* The caller of the NoteBook: main.add_note builds Note(text) and adds    *)
(* it; edit_note and delete_note are called with any id.                   *)
(***************************************************************************)
NoteTexts ==
    { <<"a">>,
      <<"b", " ", "#", "x">>,
      <<"#", "y", " ", " ", "a", " ", "#", "y">> }

NoteIds == 1..(MaxId + 1)

\* a reference no live object has
FreshRef(nb) == CHOOSE r \in 1..(Cardinality(DOMAIN nb.objs) + 1) : r \notin DOMAIN nb.objs

NoteHistory(nb1, op, id, text, res) ==
    /\ notebook' = nb1
    /\ assigned' = IF op \in {"add_note", "add_note_again"} THEN Append(assigned, id) ELSE assigned
    /\ ever_ids' = ever_ids \cup DOMAIN nb1.data
    /\ nlast' = [op |-> op, id |-> id, text |-> text, res |-> res]
    /\ nprev' = notebook
    /\ UNCHANGED <<focus, pads_year, bvars, cvars>>

\* note = Note(text); notebook.add_note(note)
AddNote(text, now) ==
    /\ focus = "notes"
    /\ notebook.next_id <= MaxId
    /\ LET ref == FreshRef(notebook)
           nb0 == [notebook EXCEPT !.objs = MapPut(@, ref, Note_init(text, now))]
       IN  NoteHistory(Reachable(NoteBook_add_note(nb0, ref)),
                       "add_note", notebook.next_id, text, "ok")

\* notebook.add_note(note) with a Note object the NoteBook already holds under key k
AddNoteAgain(k) ==
    /\ focus = "notes"
    /\ notebook.next_id <= MaxId
    /\ k \in DOMAIN notebook.data
    /\ NoteHistory(Reachable(NoteBook_add_note(notebook, notebook.data[k])),
                   "add_note_again", notebook.next_id, <<>>, "ok")

\* notebook.edit_note(note_id, new_text)
EditNote(note_id, new_text) ==
    /\ focus = "notes"
    /\ LET r == NoteBook_edit_note(notebook, note_id, new_text)
       IN  NoteHistory(r.nb, "edit_note", note_id, new_text, r.res)

\* notebook.delete_note(note_id)
DeleteNote(note_id) ==
    /\ focus = "notes"
    /\ LET r == NoteBook_delete_note(notebook, note_id)
       IN  NoteHistory(r.nb, "delete_note", note_id, <<>>, r.res)

\* notebook = NoteBook.from_dict(notebook.to_dict()): the document the
\* NoteBook wrote is loaded again, as save_data and load_data do
ReloadNotes(now) ==
    /\ focus = "notes"
    /\ NoteHistory(NoteBook_from_dict(NoteBook_to_dict(notebook), now),
                   "from_dict", 0, <<>>, "ok")

NotesInit ==
    /\ notebook = NoteBook_init
    /\ assigned = <<>>
    /\ ever_ids = {}
    /\ nlast = [op |-> "init", id |-> 0, text |-> <<>>, res |-> "ok"]
    /\ nprev = NoteBook_init

(***************************************************************************)
(* The caller of the AddressBook: it adds records, looks a record up by    *)
(* name and calls the Record's methods on the object find returned.        *)
(***************************************************************************)
Names == { <<"A">>, <<"B">> }

\* the contacts whose Record the caller goes on to change
EditedNames == { <<"A">> }

Phone1 == <<"0", "5", "0", "1", "2", "3", "4", "5", "6", "7">>
Phone2 == <<"0", "6", "7", "0", "0", "0", "0", "0", "0", "0">>
PhoneShort == <<"1", "2", "3", "4", "5">>
PhoneAlpha == <<"0", "5", "0", "1", "2", "3", "4", "5", "a", "b">>
PhoneInputs == {Phone1, Phone2, PhoneShort, PhoneAlpha}

\* ten times the character U+00B2
PhoneSuperscript == [i \in 1..10 |-> Superscript2]

\* the phone numbers the caller passes
PhonesGiven == IF focus = "phones" THEN {Phone1, PhoneShort, PhoneSuperscript} ELSE PhoneInputs
PhonesOfAnyCaller == PhoneInputs \cup {PhoneSuperscript}

Email1 == <<"a", "@", "b", ".", "c">>
Email2 == <<"x", ".", "y", "@", "k", "-", "k", ".", "c", "c">>
EmailInputs == {Email1, Email2, <<"a", "b">>, <<"a", "@", "b">>, <<>>}

AddressInputs == { <<"k", " ", "1">>, <<>> }

Birthday1 == <<"1", "5", ".", "0", "3", ".", "1", "9", "9", "0">>
Birthday2 == <<"1", "7", ".", "0", "3", ".", "1", "9", "8", "5">>
BirthdayOf990 == <<"1", "5", ".", "0", "3", ".", "0", "9", "9", "0">>
BirthdayLeap == <<"2", "9", ".", "0", "2", ".", "2", "0", "0", "0">>
BirthdayInputs ==
    { Birthday1,
      <<"3", "1", ".", "0", "2", ".", "2", "0", "0", "0">> }

\* the birthdays the caller passes
BirthdaysGiven ==
    IF focus = "query" THEN {Birthday1, BirthdayOf990, BirthdayLeap} ELSE BirthdayInputs
BirthdaysOfAnyCaller == BirthdayInputs \cup {BirthdayOf990, BirthdayLeap}

\* the values datetime.today().date() is read with
Todays ==
    { Date(2024, 3, 15),    \* a Friday of a leap year
      Date(2024, 2, 28),
      Date(2025, 3, 7),     \* a Friday; March 15th is the Saturday eight days on
      Date(2025, 3, 8),
      Date(2025, 3, 16),    \* the Sunday after it
      Date(2026, 3, 15) }   \* a Sunday

\* the values of days
Windows == {0, 7}

\* the queries search is called with
Queries == { <<"a">>, <<"K">>, <<"6", "7">>, <<"k", " ", "1">>, <<"z">>, <<>> }

\* the records a caller builds before add_record: Record(name), then setters
NewRecords ==
    { Record_init(n) : n \in Names }
    \cup { Record_set_email(Record_add_phone(Record_init(n), Phone2).rec, Email2).rec :
            n \in Names }

RecordsOfAnyCaller ==
    NewRecords \cup { Record_add_birthday(Record_init(n), Birthday2).rec : n \in Names }

\* the records the caller passes to add_record
RecordsGiven ==
    IF focus = "query" THEN RecordsOfAnyCaller
    ELSE IF focus = "phones" THEN { Record_init(n) : n \in EditedNames }
    ELSE NewRecords

NoRecord == Record_init(<<>>)

BookHistory(data1, op, name, args, rec, out) ==
    /\ book' = data1
    /\ blast' = [op |-> op, name |-> name, args |-> args, rec |-> rec,
                 exc |-> out.exc, msg |-> out.msg, ret |-> out.ret]
    /\ bprev' = book
    /\ UNCHANGED <<focus, pads_year, nvars, cvars>>

\* a Record method called on the record stored under name
OnRecord(op, name, args, r) ==
    BookHistory([book EXCEPT ![name] = r.rec], op, name, args, NoRecord, r)

\* book.add_record(record)
AddRecord(record) ==
    /\ focus \in {"book", "phones", "query"}
    /\ record \in RecordsGiven
    /\ BookHistory(AddressBook_add_record(book, record), "add_record",
                   record.name.value, <<>>, record, Done(record))

\* book.find(name)
Find(name) ==
    /\ focus = "book"
    /\ LET r == AddressBook_find(book, name)
       IN  BookHistory(book, "find", name, <<>>, NoRecord,
                       [exc |-> r.exc, msg |-> "", ret |-> r.ret])

\* book.delete(name)
Delete(name) ==
    /\ focus \in {"book", "phones", "query"}
    /\ BookHistory(AddressBook_delete(book, name), "delete", name, <<>>, NoRecord,
                   Done(NoRecord))

\* record.find_phone(phone_number)
FindPhone(name, phone_number) ==
    /\ focus \in {"book", "phones"}
    /\ phone_number \in PhonesGiven
    /\ name \in DOMAIN book
    /\ LET i == Record_find_phone(book[name], phone_number)
       IN  BookHistory(book, "find_phone", name, <<phone_number>>, NoRecord,
                       [exc |-> "", msg |-> "",
                        ret |-> IF i = 0 THEN PyNone ELSE book[name].phones[i]])

\* record.add_phone(phone_number)
AddPhone(name, phone_number) ==
    /\ focus \in {"book", "phones"}
    /\ phone_number \in PhonesGiven
    /\ name \in DOMAIN book
    /\ Len(book[name].phones) < MaxPhones
    /\ OnRecord("add_phone", name, <<phone_number>>,
                Record_add_phone(book[name], phone_number))

\* record.remove_phone(phone_number)
RemovePhone(name, phone_number) ==
    /\ focus \in {"book", "phones"}
    /\ phone_number \in PhonesGiven
    /\ name \in DOMAIN book
    /\ OnRecord("remove_phone", name, <<phone_number>>,
                Record_remove_phone(book[name], phone_number))

\* record.edit_phone(old_phone_number, new_phone_number)
EditPhone(name, old_phone_number, new_phone_number) ==
    /\ focus \in {"book", "phones"}
    /\ old_phone_number \in PhonesGiven
    /\ new_phone_number \in PhonesGiven
    /\ name \in DOMAIN book
    /\ OnRecord("edit_phone", name, <<old_phone_number, new_phone_number>>,
                Record_edit_phone(book[name], old_phone_number, new_phone_number))

\* record.set_email(email_str)
SetEmail(name, email_str) ==
    /\ focus \in {"book", "query"}
    /\ name \in DOMAIN book
    /\ OnRecord("set_email", name, <<email_str>>, Record_set_email(book[name], email_str))

\* record.set_address(address_str)
SetAddress(name, address_str) ==
    /\ focus \in {"book", "query"}
    /\ name \in DOMAIN book
    /\ OnRecord("set_address", name, <<address_str>>,
                Record_set_address(book[name], address_str))

\* record.add_birthday(birthday)
AddBirthday(name, birthday) ==
    /\ focus \in {"book", "query"}
    /\ birthday \in BirthdaysGiven
    /\ name \in DOMAIN book
    /\ OnRecord("add_birthday", name, <<birthday>>,
                Record_add_birthday(book[name], birthday))

\* book.get_upcoming_birthdays(days), called on the day today
UpcomingBirthdays(today, days) ==
    /\ focus = "query"
    /\ LET r == AddressBook_get_upcoming_birthdays(book, today, days)
       IN  BookHistory(book, "get_upcoming_birthdays", <<>>, <<today, days>>, NoRecord, r)

\* book.search(query)
Search(query) ==
    /\ focus = "query"
    /\ BookHistory(book, "search", <<>>, <<query>>, NoRecord,
                   [exc |-> "", msg |-> "", ret |-> AddressBook_search(book, query)])

BookInit ==
    /\ book = EmptyMap
    /\ blast = [op |-> "init", name |-> <<>>, args |-> <<>>, rec |-> NoRecord,
                exc |-> "", msg |-> "", ret |-> PyNone]
    /\ bprev = EmptyMap

(***************************************************************************)
(* src/main.py: its own Record, whose set_email and set_address store the  *)
(* raw str, the command handlers under input_error, save_data, load_data   *)
(* and the loop of main().  add_phone, edit_phone, find_phone and          *)
(* add_birthday of this Record are those of src/models.py line for line.   *)
(***************************************************************************)
\* whether x.value is an attribute: a Field object has it, a str has not
HasValue(x) == x.type \in {"Name", "Phone", "Email", "Address", "Birthday"}

str_contains(s, c) == \E i \in 1..Len(s) : s[i] = c

\* Record.__init__(name, email, address) of main.py
Main_Record_init(name, email, address) ==
    [name     |-> Field("Name", name),
     phones   |-> <<>>,
     birthday |-> PyNone,
     email    |-> email,
     address  |-> address]

\* Record.set_email of main.py
Main_Record_set_email(rec, email_str) ==
    IF email_str # <<>> /\ str_contains(email_str, "@")
    THEN Done([rec EXCEPT !.email = Str(email_str)])
    ELSE Raise(rec, "ValueError", "Invalid email provided.")

\* Record.set_address of main.py
Main_Record_set_address(rec, address_str) ==
    IF address_str # <<>>
    THEN Done([rec EXCEPT !.address = Str(address_str)])
    ELSE Raise(rec, "ValueError", "Invalid address provided.")

\* self.email.value if self.email else ..., and the same for address: whether
\* the attribute .value is read of a str
ReadsValueOfStr(rec) ==
    \/ PyTruthy(rec.email) /\ ~HasValue(rec.email)
    \/ PyTruthy(rec.address) /\ ~HasValue(rec.address)

\* Record.to_dict of main.py: the document, or the AttributeError of a str's .value
Main_Record_to_dict(rec) ==
    IF ReadsValueOfStr(rec)
    THEN [exc |-> "AttributeError", doc |-> PyNone]
    ELSE [exc |-> "",
          doc |-> [name     |-> rec.name.value,
                   phones   |-> [i \in 1..Len(rec.phones) |-> rec.phones[i].value],
                   birthday |-> IF PyTruthy(rec.birthday)
                                THEN Str(Birthday_to_dict(rec.birthday)) ELSE PyNone,
                   email    |-> IF PyTruthy(rec.email) THEN Str(rec.email.value) ELSE PyNone,
                   address  |-> IF PyTruthy(rec.address) THEN Str(rec.address.value)
                                ELSE PyNone]]

RECURSIVE Main_add_phones(_, _, _)
\* for phone_number in data.get("phones", []): record.add_phone(phone_number)
Main_add_phones(r, phones, i) ==
    IF i > Len(phones) \/ r.exc # "" THEN r
    ELSE Main_add_phones(Record_add_phone(r.rec, phones[i]), phones, i + 1)

\* Record.from_dict of main.py: the record, or the ValueError of a validator
Main_Record_from_dict(d) ==
    LET r0 == Done(Main_Record_init(d.name, d.email, d.address))
        r1 == Main_add_phones(r0, d.phones, 1)
        r2 == IF r1.exc = "" /\ PyTruthy(d.birthday)
              THEN Record_add_birthday(r1.rec, d.birthday.value) ELSE r1
        r3 == IF r2.exc = "" /\ PyTruthy(d.email)
              THEN IF Email_valid(d.email.value)
                   THEN Done([r2.rec EXCEPT !.email = Field("Email", d.email.value)])
                   ELSE Raise(r2.rec, "ValueError", "Invalid email format")
              ELSE r2
        r4 == IF r3.exc = "" /\ PyTruthy(d.address)
              THEN Done([r3.rec EXCEPT !.address = Field("Address", d.address.value)])
              ELSE r3
    IN  r4

\* AddressBook.to_dict of main.py
Main_AddressBook_to_dict(data) ==
    IF \E n \in DOMAIN data : Main_Record_to_dict(data[n]).exc # ""
    THEN [exc |-> "AttributeError", doc |-> PyNone]
    ELSE [exc |-> "", doc |-> [n \in DOMAIN data |-> Main_Record_to_dict(data[n]).doc]]

\* AddressBook.from_dict of main.py
Main_AddressBook_from_dict(doc) ==
    IF \E n \in DOMAIN doc : Main_Record_from_dict(doc[n]).exc # ""
    THEN [exc |-> "ValueError", data |-> EmptyMap]
    ELSE [exc |-> "",
          data |-> [k \in {doc[n].name : n \in DOMAIN doc} |->
                      Main_Record_from_dict(
                          doc[CHOOSE n \in DOMAIN doc : doc[n].name = k]).rec]]

NoFile == [type |-> "absent"]

\* save_data(book, notebook): the file afterwards and the exception that leaves it
save_data(data, nb, old_file) ==
    LET c == Main_AddressBook_to_dict(data)
    IN  IF c.exc # ""
        THEN [exc |-> c.exc, file |-> old_file]
        ELSE [exc |-> "",
              file |-> [type |-> "json", contacts |-> c.doc, notes |-> NoteBook_to_dict(nb)]]

\* load_data(): book and notebook, or the exception that leaves it
load_data(f, now) ==
    IF f = NoFile
    THEN [exc |-> "", book |-> EmptyMap, notebook |-> NoteBook_init]
    ELSE LET b == Main_AddressBook_from_dict(f.contacts)
         IN  [exc |-> b.exc, book |-> b.data, notebook |-> NoteBook_from_dict(f.notes, now)]

(***************************************************************************)
(* The handlers.  A handler gives book and notebook afterwards, the text   *)
(* printed, and the exception that input_error does not catch ("" if none).*)
(***************************************************************************)
Printed(data, nb, out) == [book |-> data, notebook |-> nb, out |-> out, exc |-> ""]

\* input_error: what is printed for the exception a handler raised
input_error(data, nb, exc, msg) ==
    Printed(data, nb,
        IF exc = "ValueError" THEN msg
        ELSE IF exc = "KeyError" THEN "Contact or Note not found."
        ELSE IF exc = "AttributeError" THEN "Contact not found."
        ELSE "Invalid number of arguments.")

RECURSIVE add_contact_tokens(_, _, _)
\* the loop of add_contact over rest: phone, email and addr_parts
add_contact_tokens(rest, i, acc) ==
    IF i > Len(rest) THEN acc
    ELSE IF acc.phone = <<>> /\ str_isdigit(rest[i]) /\ Len(rest[i]) = 10
         THEN add_contact_tokens(rest, i + 1, [acc EXCEPT !.phone = rest[i]])
    ELSE IF acc.email = <<>> /\ str_contains(rest[i], "@") /\ str_contains(rest[i], ".")
         THEN add_contact_tokens(rest, i + 1, [acc EXCEPT !.email = rest[i]])
    ELSE add_contact_tokens(rest, i + 1, [acc EXCEPT !.addr_parts = Append(@, rest[i])])

\* add_contact(args, book)
add_contact(args, data, nb) ==
    IF args = <<>> THEN input_error(data, nb, "IndexError", "")
    ELSE
    LET name == args[1]
        t == add_contact_tokens(Tail(args), 1,
                                [phone |-> <<>>, email |-> <<>>, addr_parts |-> <<>>])
        address == str_join(<<" ">>, t.addr_parts)
        found == name \in DOMAIN data
        r0 == IF found THEN data[name] ELSE Main_Record_init(name, PyNone, PyNone)
        r1 == IF t.phone # <<>> THEN Record_add_phone(r0, t.phone) ELSE Done(r0)
        r2 == IF r1.exc = "" /\ t.email # <<>>
              THEN Main_Record_set_email(r1.rec, t.email) ELSE r1
        r3 == IF r2.exc = "" /\ address # <<>>
              THEN Main_Record_set_address(r2.rec, address) ELSE r2
        data1 == MapPut(data, name, r3.rec)
    IN  IF r3.exc = ""
        THEN Printed(data1, nb, IF found THEN "Contact updated." ELSE "Contact added.")
        ELSE input_error(data1, nb, r3.exc, r3.msg)

\* a Record method called on book.find(name): None has no such attribute
OnFound(data, nb, name, r, out) ==
    IF name \notin DOMAIN data THEN input_error(data, nb, "AttributeError", "")
    ELSE IF r.exc = "" THEN Printed(MapPut(data, name, r.rec), nb, out)
    ELSE input_error(MapPut(data, name, r.rec), nb, r.exc, r.msg)

\* change_contact(args, book)
change_contact(args, data, nb) ==
    IF Len(args) < 3 THEN input_error(data, nb, "IndexError", "")
    ELSE
    LET name == args[1]
        rec == IF name \in DOMAIN data THEN data[name] ELSE Main_Record_init(name, PyNone, PyNone)
    IN  IF args[2] = <<"p", "h", "o", "n", "e">>
        THEN IF Len(args) < 4 THEN input_error(data, nb, "IndexError", "")
             ELSE OnFound(data, nb, name, Record_edit_phone(rec, args[3], args[4]),
                          "Phone updated.")
        ELSE IF args[2] = <<"e", "m", "a", "i", "l">>
        THEN OnFound(data, nb, name, Main_Record_set_email(rec, args[3]), "Email updated.")
        ELSE IF args[2] = <<"a", "d", "d", "r", "e", "s", "s">>
        THEN OnFound(data, nb, name,
                     Main_Record_set_address(rec, str_join(<<" ">>, SubSeq(args, 3, Len(args)))),
                     "Address updated.")
        ELSE input_error(data, nb, "ValueError",
                         "Unknown field. Use 'phone', 'email' or 'address'.")

\* add_birthday(args, book)
add_birthday(args, data, nb) ==
    IF Len(args) < 2
    THEN input_error(data, nb, "ValueError", "not enough values to unpack")
    ELSE LET name == args[1]
             rec == IF name \in DOMAIN data THEN data[name]
                    ELSE Main_Record_init(name, PyNone, PyNone)
         IN  OnFound(data, nb, name, Record_add_birthday(rec, args[2]), "Birthday added.")

\* add_email(args, book)
add_email(args, data, nb) ==
    IF Len(args) < 2
    THEN input_error(data, nb, "ValueError", "not enough values to unpack")
    ELSE LET name == args[1]
             rec == IF name \in DOMAIN data THEN data[name]
                    ELSE Main_Record_init(name, PyNone, PyNone)
         IN  OnFound(data, nb, name, Main_Record_set_email(rec, args[2]), "Email set.")

\* add_address(args, book)
add_address(args, data, nb) ==
    IF Len(args) < 2 THEN input_error(data, nb, "IndexError", "")
    ELSE LET name == args[1]
             rec == IF name \in DOMAIN data THEN data[name]
                    ELSE Main_Record_init(name, PyNone, PyNone)
         IN  OnFound(data, nb, name,
                     Main_Record_set_address(rec, str_join(<<" ">>, Tail(args))),
                     "Address set.")

\* delete_contact(args, book)
delete_contact(args, data, nb) ==
    IF args = <<>>
    THEN input_error(data, nb, "ValueError", "not enough values to unpack")
    ELSE Printed(AddressBook_delete(data, args[1]), nb, "Contact deleted.")

\* show_all(_, book): str(record) reads .value of email and address; not under input_error
show_all(args, data, nb) ==
    IF data = EmptyMap THEN Printed(data, nb, "No contacts found.")
    ELSE IF \E n \in DOMAIN data : ReadsValueOfStr(data[n])
    THEN [book |-> data, notebook |-> nb, out |-> "", exc |-> "AttributeError"]
    ELSE Printed(data, nb, "the contacts")

\* add_note(args, notebook)
add_note(args, data, nb, now) ==
    LET text == str_join(<<" ">>, args)
        ref == FreshRef(nb)
        nb0 == [nb EXCEPT !.objs = MapPut(@, ref, Note_init(text, now))]
    IN  IF text = <<>> THEN input_error(data, nb, "IndexError", "")
        ELSE Printed(data, NoteBook_add_note(nb0, ref), "Note added.")

\* edit_note(args, notebook)
edit_note(args, data, nb) ==
    IF Len(args) < 2 THEN input_error(data, nb, "IndexError", "")
    ELSE IF ~str_isdecimal(args[1]) THEN Printed(data, nb, "Note ID must be a number.")
    ELSE LET r == NoteBook_edit_note(nb, str_to_int(args[1]), str_join(<<" ">>, Tail(args)))
         IN  IF r.res = "ok" THEN Printed(data, r.nb, "Note updated.")
             ELSE input_error(data, r.nb, r.res, "")

\* delete_note(args, notebook)
delete_note(args, data, nb) ==
    IF args = <<>> THEN input_error(data, nb, "IndexError", "")
    ELSE IF ~str_isdecimal(args[1]) THEN Printed(data, nb, "Note ID must be a number.")
    ELSE LET r == NoteBook_delete_note(nb, str_to_int(args[1]))
         IN  IF r.res = "ok" THEN Printed(data, r.nb, "Note deleted.")
             ELSE input_error(data, r.nb, r.res, "")

(***************************************************************************)
(* main(): load_data, then the loop; one action per command line read.     *)
(***************************************************************************)
Tok_phone == <<"p", "h", "o", "n", "e">>
Tok_email == <<"e", "m", "a", "i", "l">>
Tok_address == <<"a", "d", "d", "r", "e", "s", "s">>
Tok_birthday == <<"1", "5", ".", "0", "3", ".", "1", "9", "9", "0">>
Tok_k == <<"k">>
Tok_hash == <<"#", "x">>

CliNames == { <<"A">> }
AddArgs ==
    { <<n>> : n \in CliNames }
    \cup { <<n, Phone1>> : n \in CliNames }
    \cup { <<n, Phone1, Email1, Tok_k>> : n \in CliNames }
ChangeArgs ==
    { <<n, Tok_phone, Phone1, Phone2>> : n \in CliNames }
    \cup { <<n, Tok_email, Email1>> : n \in CliNames }
    \cup { <<n, Tok_address, Tok_k, Tok_k>> : n \in CliNames }
EmailArgs == { <<n, e>> : n \in CliNames, e \in {Email1, <<"a", "b">>} }
AddressArgs == { <<n, Tok_k>> : n \in CliNames }
BirthdayArgs == { <<n, Tok_birthday>> : n \in CliNames }
NoteArgs == { <<Tok_k>>, <<Tok_k, Tok_hash>> }
NoteIdArgs == { <<"1">>, <<"2">>, <<"x">> }

Running == focus = "cli" /\ pc = "running" /\ cmds < MaxCmds

\* the loop body for a command of command_map
Command(cmd, args, r) ==
    /\ cli_book' = r.book
    /\ cli_notebook' = Reachable(r.notebook)
    /\ pc' = IF r.exc = "" THEN "running" ELSE "crashed"
    /\ clast' = [cmd |-> cmd, args |-> args, out |-> r.out, exc |-> r.exc]
    /\ cmds' = cmds + 1
    /\ UNCHANGED <<focus, pads_year, file, nvars, bvars>>

CmdAdd(args) == Running /\ Command("add", args, add_contact(args, cli_book, cli_notebook))

CmdChange(args) ==
    Running /\ Command("change", args, change_contact(args, cli_book, cli_notebook))

CmdAddBirthday(args) ==
    Running /\ Command("add-birthday", args, add_birthday(args, cli_book, cli_notebook))

CmdAddEmail(args) ==
    Running /\ Command("add-email", args, add_email(args, cli_book, cli_notebook))

CmdAddAddress(args) ==
    Running /\ Command("add-address", args, add_address(args, cli_book, cli_notebook))

CmdDeleteContact(args) ==
    Running /\ Command("delete-contact", args, delete_contact(args, cli_book, cli_notebook))

CmdAll == Running /\ Command("all", <<>>, show_all(<<>>, cli_book, cli_notebook))

CmdAddNote(args, now) ==
    Running /\ Command("add-note", args, add_note(args, cli_book, cli_notebook, now))

CmdEditNote(args) ==
    Running /\ Command("edit-note", args, edit_note(args, cli_book, cli_notebook))

CmdDeleteNote(args) ==
    Running /\ Command("delete-note", args, delete_note(args, cli_book, cli_notebook))

\* exit / close: print, save_data(book, notebook), break
CmdExit ==
    /\ Running
    /\ LET r == save_data(cli_book, cli_notebook, file)
       IN  /\ file' = r.file
           /\ pc' = IF r.exc = "" THEN "exited" ELSE "crashed"
           /\ clast' = [cmd |-> "exit", args |-> <<>>, out |-> "Good bye!", exc |-> r.exc]
    /\ cmds' = cmds + 1
    /\ UNCHANGED <<focus, pads_year, cli_book, cli_notebook, nvars, bvars>>

\* the program is started: book, notebook = load_data()
Startup(now) ==
    /\ focus = "cli"
    /\ pc \in {"off", "exited", "crashed"}
    /\ LET r == load_data(file, now)
       IN  /\ cli_book' = r.book
           /\ cli_notebook' = r.notebook
           /\ pc' = IF r.exc = "" THEN "running" ELSE "crashed"
           /\ clast' = [cmd |-> "start", args |-> <<>>, out |-> "", exc |-> r.exc]
    /\ UNCHANGED <<focus, pads_year, file, cmds, nvars, bvars>>

CliInit ==
    /\ cli_book = EmptyMap
    /\ cli_notebook = NoteBook_init
    /\ file = NoFile
    /\ pc = "off"
    /\ clast = [cmd |-> "", args |-> <<>>, out |-> "", exc |-> ""]
    /\ cmds = 0

vars == <<focus, pads_year, notebook, assigned, ever_ids, nlast, nprev, book, blast, bprev,
          cli_book, cli_notebook, file, pc, clast, cmds>>

\* the caller works on one of the collections; they share no state
Init ==
    /\ focus \in {"notes", "book", "phones", "query"}
    /\ pads_year \in BOOLEAN
    /\ NotesInit
    /\ BookInit
    /\ CliInit

Next ==
    \/ \E text \in NoteTexts, now \in Clock : AddNote(text, now)
    \/ \E k \in NoteIds : AddNoteAgain(k)
    \/ \E id \in NoteIds, text \in NoteTexts : EditNote(id, text)
    \/ \E id \in NoteIds : DeleteNote(id)
    \/ \E now \in Clock : ReloadNotes(now)
    \/ \E record \in RecordsOfAnyCaller : AddRecord(record)
    \/ \E name \in Names : Find(name)
    \/ \E name \in Names : Delete(name)
    \/ \E name \in EditedNames, p \in PhonesOfAnyCaller : FindPhone(name, p)
    \/ \E name \in EditedNames, p \in PhonesOfAnyCaller : AddPhone(name, p)
    \/ \E name \in EditedNames, p \in PhonesOfAnyCaller : RemovePhone(name, p)
    \/ \E name \in EditedNames, old \in PhonesOfAnyCaller, new \in PhonesOfAnyCaller : EditPhone(name, old, new)
    \/ \E name \in EditedNames, e \in EmailInputs : SetEmail(name, e)
    \/ \E name \in EditedNames, a \in AddressInputs : SetAddress(name, a)
    \/ \E name \in EditedNames, b \in BirthdaysOfAnyCaller : AddBirthday(name, b)
    \/ \E today \in Todays, days \in Windows : UpcomingBirthdays(today, days)
    \/ \E query \in Queries : Search(query)

Spec == Init /\ [][Next]_vars

\* the program of src/main.py run from a machine without a data file
InitCli ==
    /\ focus = "cli"
    /\ pads_year \in BOOLEAN
    /\ NotesInit
    /\ BookInit
    /\ CliInit

NextCli ==
    \/ \E now \in Clock : Startup(now)
    \/ \E args \in AddArgs : CmdAdd(args)
    \/ \E args \in ChangeArgs : CmdChange(args)
    \/ \E args \in BirthdayArgs : CmdAddBirthday(args)
    \/ \E args \in EmailArgs : CmdAddEmail(args)
    \/ \E args \in AddressArgs : CmdAddAddress(args)
    \/ \E args \in CliNames : CmdDeleteContact(<<args>>)
    \/ CmdAll
    \/ \E args \in NoteArgs, now \in Clock : CmdAddNote(args, now)
    \/ \E id \in NoteIdArgs, text \in NoteArgs : CmdEditNote(<<id>> \o text)
    \/ \E id \in NoteIdArgs : CmdDeleteNote(<<id>>)
    \/ CmdExit

SpecCli == InitCli /\ [][NextCli]_vars

(***************************************************************************)
(* Properties of the NoteBook                                              *)
(***************************************************************************)
Keys(nb) == DOMAIN nb.data

\* the tokens of a raw text that begin with '#', in order
HashTokens(text) == SelectSeq(str_split(text), LAMBDA w : w # <<>> /\ Head(w) = "#")

\* C1: next_id is above every id that is or ever was in the map; the ids
\* add_note assigns increase strictly, so a freed id is never assigned again.
C1_NextIdAboveEveryId ==
    /\ \A k \in ever_ids \cup Keys(notebook) : k < notebook.next_id
    /\ \A i \in 1..Len(assigned) : assigned[i] < notebook.next_id
    /\ \A i, j \in 1..Len(assigned) : i < j => assigned[i] < assigned[j]

\* an id was freed by delete_note and a later add_note got a larger one
C1_Witness ==
    /\ nlast.op = "add_note"
    /\ \E k \in ever_ids : k \notin Keys(notebook) /\ k < nlast.id

\* C2: NoteBook.from_dict(nb.to_dict()) has the same next_id, the same ids and,
\* for every id, the same note id, text, tags and created timestamp.
C2_RoundTripPreservesNotes ==
    \A now \in Clock :
        LET back == NoteBook_from_dict(NoteBook_to_dict(notebook), now)
        IN  /\ back.next_id = notebook.next_id
            /\ Keys(back) = Keys(notebook)
            /\ \A k \in Keys(notebook) :
                /\ NoteAt(back, k).id = NoteAt(notebook, k).id
                /\ NoteAt(back, k).text = NoteAt(notebook, k).text
                /\ NoteAt(back, k).tags = NoteAt(notebook, k).tags
                /\ NoteAt(back, k).created = NoteAt(notebook, k).created

\* C3: no stored text has a token beginning with '#', and the tags are the
\* '#'-tokens of the note's most recent raw input, in order, duplicates kept.
C3_TextHasNoTagToken ==
    /\ \A k \in Keys(notebook) : HashTokens(NoteAt(notebook, k).text) = <<>>
    /\ (nlast.op \in {"add_note", "edit_note"} /\ nlast.res = "ok")
            => NoteAt(notebook, nlast.id).tags = HashTokens(nlast.text)

\* C4: edit_note on a present id sets the tags to those the constructor would
\* extract from the new text (none when it has no '#' token) and leaves the
\* note's id and created, every other note, the keys and next_id as they were.
C4_EditRecomputesTags ==
    (nlast.op = "edit_note" /\ nlast.id \in Keys(nprev)) =>
        LET ref == nprev.data[nlast.id]
        IN  /\ nlast.res = "ok"
            /\ \A now \in Clock :
                   notebook.objs[ref].tags = Note_init(nlast.text, now).tags
            /\ (HashTokens(nlast.text) = <<>> => notebook.objs[ref].tags = <<>>)
            /\ notebook.objs[ref].id = nprev.objs[ref].id
            /\ notebook.objs[ref].created = nprev.objs[ref].created
            /\ notebook.next_id = nprev.next_id
            /\ notebook.data = nprev.data
            /\ \A r \in DOMAIN nprev.objs \ {ref} : notebook.objs[r] = nprev.objs[r]

\* a note that had tags was edited with a text without '#', beside another note
C4_Witness ==
    /\ nlast.op = "edit_note"
    /\ nlast.res = "ok"
    /\ nlast.id \in Keys(nprev)
    /\ NoteAt(nprev, nlast.id).tags # <<>>
    /\ NoteAt(notebook, nlast.id).tags = <<>>
    /\ \E k \in Keys(notebook) : notebook.data[k] # notebook.data[nlast.id]

\* C8 (NoteBook): edit_note and delete_note with an id that is not a key raise
\* KeyError and leave the notes and next_id as they were.
C8_AbsentNoteRaises ==
    (nlast.op \in {"edit_note", "delete_note"} /\ nlast.id \notin Keys(nprev)) =>
        /\ nlast.res = "KeyError"
        /\ notebook = nprev

(***************************************************************************)
(* Properties of the Record and the AddressBook                            *)
(***************************************************************************)
PhoneValues(rec) == [i \in 1..Len(rec.phones) |-> rec.phones[i].value]

\* a string of exactly ten digits, decimal or not
TenDigits(s) == Len(s) = 10 /\ \A i \in 1..Len(s) : s[i] \in AsciiDigits \cup {Superscript2}

\* a string of exactly ten decimal digits
TenDecimalDigits(s) == Len(s) = 10 /\ \A i \in 1..Len(s) : s[i] \in AsciiDigits

\* C6: add_record under a name already present stores the new record whole:
\* find(name) returns it, nothing of the old record is left, and every entry
\* under another name is as it was.
C6_AddRecordReplaces ==
    (blast.op = "add_record" /\ blast.name \in DOMAIN bprev) =>
        /\ AddressBook_find(book, blast.name).ret = blast.rec
        /\ book[blast.name].phones = blast.rec.phones
        /\ book[blast.name].email = blast.rec.email
        /\ book[blast.name].address = blast.rec.address
        /\ book[blast.name].birthday = blast.rec.birthday
        /\ DOMAIN book = DOMAIN bprev
        /\ \A n \in DOMAIN bprev \ {blast.name} : book[n] = bprev[n]

\* a record with phones, e-mail, address and birthday was replaced by a bare
\* one, beside an entry under another name
C6_Witness ==
    /\ blast.op = "add_record"
    /\ blast.name \in DOMAIN bprev
    /\ bprev[blast.name].phones # <<>>
    /\ bprev[blast.name].email # PyNone
    /\ bprev[blast.name].address # PyNone
    /\ bprev[blast.name].birthday # PyNone
    /\ blast.rec = Record_init(blast.name)
    /\ book[blast.name].phones = <<>>
    /\ DOMAIN book \ {blast.name} # {}

\* C7: delete(name) never raises; with name absent the book is as it was;
\* a second delete(name) changes nothing; the other entries are untouched.
C7_DeleteIdempotent ==
    /\ blast.op = "delete" =>
        /\ blast.exc = ""
        /\ (blast.name \notin DOMAIN bprev => book = bprev)
        /\ DOMAIN book = DOMAIN bprev \ {blast.name}
        /\ \A n \in DOMAIN book : book[n] = bprev[n]
        /\ AddressBook_delete(book, blast.name) = book
    /\ \A n \in Names :
        AddressBook_delete(AddressBook_delete(book, n), n) = AddressBook_delete(book, n)

\* delete(name) was called with name absent while another entry is there
C7_Witness ==
    /\ blast.op = "delete"
    /\ blast.name \notin DOMAIN bprev
    /\ DOMAIN book # {}

\* C8: edit_note and delete_note with an absent id raise KeyError and change
\* nothing, while find and find_phone return None for what is not there.
C8_WritePathRaisesReadPathReturnsNone ==
    /\ C8_AbsentNoteRaises
    /\ (blast.op = "find" /\ blast.name \notin DOMAIN bprev) =>
            blast.exc = "" /\ blast.ret = PyNone /\ book = bprev
    /\ (blast.op = "find" /\ blast.name \in DOMAIN bprev) =>
            blast.exc = "" /\ blast.ret = bprev[blast.name]
    /\ (blast.op = "find_phone"
            /\ \A i \in 1..Len(bprev[blast.name].phones) :
                    bprev[blast.name].phones[i].value # blast.args[1]) =>
            blast.exc = "" /\ blast.ret = PyNone /\ book = bprev

\* edit_note or delete_note failed on an id that is not a key of a NoteBook with notes
C8_Witness ==
    /\ nlast.op \in {"edit_note", "delete_note"}
    /\ nlast.res = "KeyError"
    /\ nlast.id \notin Keys(notebook)
    /\ Keys(notebook) # {}

C10_SettersOverwriteOrRaise ==
    /\ blast.op = "set_email" =>
        \/ /\ blast.exc = ""
           /\ book[blast.name].email = Field("Email", blast.args[1])
           /\ Email_valid(blast.args[1])
        \/ blast.exc = "ValueError" /\ book = bprev
    /\ blast.op = "set_address" =>
        \/ /\ blast.exc = ""
           /\ book[blast.name].address = Field("Address", blast.args[1])
           /\ blast.args[1] # <<>>
        \/ blast.exc = "ValueError" /\ book = bprev
    /\ (blast.op = "set_address" /\ blast.args[1] = <<>>) => blast.exc = "ValueError"

(***************************************************************************)
(* Properties of the command loop and its persistence                      *)
(***************************************************************************)
\* the raw value of an optional field, whatever holds it
RawValue(x) == IF x.type = "NoneType" THEN PyNone ELSE Str(x.value)

SameRecord(r1, r2) ==
    /\ r1.name.value = r2.name.value
    /\ PhoneValues(r1) = PhoneValues(r2)
    /\ r1.birthday = r2.birthday
    /\ RawValue(r1.email) = RawValue(r2.email)
    /\ RawValue(r1.address) = RawValue(r2.address)

SameBook(b1, b2) ==
    /\ DOMAIN b1 = DOMAIN b2
    /\ \A n \in DOMAIN b1 : SameRecord(b1[n], b2[n])

SameNoteBook(n1, n2) ==
    /\ n1.next_id = n2.next_id
    /\ Keys(n1) = Keys(n2)
    /\ \A k \in Keys(n1) :
        /\ NoteAt(n1, k).id = NoteAt(n2, k).id
        /\ NoteAt(n1, k).text = NoteAt(n2, k).text
        /\ NoteAt(n1, k).tags = NoteAt(n2, k).tags
        /\ NoteAt(n1, k).created = NoteAt(n2, k).created

\* C5: once exit or close is read, both collections are in the data file, and
\* load_data at the next start gives an AddressBook and a NoteBook equal to
\* those in memory at the exit, whatever commands the session ran.
C5_ExitSavesAndReloads ==
    clast.cmd = "exit" =>
        /\ pc = "exited"
        /\ file # NoFile
        /\ \A now \in Clock :
            LET r == load_data(file, now)
            IN  /\ r.exc = ""
                /\ SameBook(r.book, cli_book)
                /\ SameNoteBook(r.notebook, cli_notebook)

\* C5, the session of add and add-email alone: the exit leaves main() by an
\* AttributeError and the data file is not written
C5_EmailSessionCrashesAtExit ==
    /\ clast.cmd = "exit"
    /\ clast.exc = "AttributeError"
    /\ pc = "crashed"
    /\ file = NoFile
    /\ cli_notebook = NoteBook_init
    /\ \E n \in DOMAIN cli_book : cli_book[n].email.type = "str"

(***************************************************************************)
(* Properties of the persistence of a Record and of the queries            *)
(***************************************************************************)
\* C11: for every Record built by add_phone, edit_phone, remove_phone,
\* set_email, set_address and add_birthday, Record.from_dict(r.to_dict())
\* is built without an error and has the same name, the same phones in the
\* same order, and the same birthday, email and address.
C11_RecordRoundTrip ==
    \A n \in DOMAIN book :
        LET back == Record_from_dict(Record_to_dict(book[n]))
        IN  /\ back.exc = ""
            /\ back.rec.name.value = book[n].name.value
            /\ PhoneValues(back.rec) = PhoneValues(book[n])
            /\ back.rec.birthday = book[n].birthday
            /\ back.rec.email = book[n].email
            /\ back.rec.address = book[n].address

\* C11, the birthday of the year 990 where strftime does not pad: to_dict
\* writes the year with three digits and from_dict raises on it
C11_YearBelow1000DoesNotReload ==
    /\ ~pads_year
    /\ blast.op = "add_birthday"
    /\ blast.exc = ""
    /\ book[blast.name].birthday.value.year < 1000
    /\ Len(Record_to_dict(book[blast.name]).birthday.value) = 9
    /\ Record_from_dict(Record_to_dict(book[blast.name])).exc = "ValueError"

\* this year's occurrence of the month and day of a birthday
Occurrence(birthday, today) == Date(today.year, birthday.value.month, birthday.value.day)

\* the entries get_upcoming_birthdays returned for the record under a name
EntriesOf(ret, n) == {i \in 1..Len(ret) : ret[i].name = n}

\* C12: get_upcoming_birthdays(days) returns, and reports a record with a
\* birthday exactly when this year's occurrence of its month and day is d days
\* from today with 0 <= d <= days, tested on the date as it is; the date
\* reported is the occurrence when that is a Monday to a Friday and the Monday
\* after it when it is a Saturday or a Sunday, so never a weekend day.
C12_UpcomingBirthdays ==
    blast.op = "get_upcoming_birthdays" =>
        LET today == blast.args[1]
            days == blast.args[2]
        IN  /\ blast.exc = ""
            /\ \A i \in 1..Len(blast.ret) : blast.ret[i].name \in DOMAIN book
            /\ \A n \in DOMAIN book :
                 IF book[n].birthday = PyNone
                 THEN EntriesOf(blast.ret, n) = {}
                 ELSE LET occ == Occurrence(book[n].birthday, today)
                          d == date_toordinal(occ) - date_toordinal(today)
                          saturday == date_toordinal(occ) % 7 = 6
                          sunday == date_toordinal(occ) % 7 = 0
                          day == IF saturday THEN date_add_days(occ, 2)
                                 ELSE IF sunday THEN date_add_days(occ, 1)
                                 ELSE occ
                      IN  /\ (EntriesOf(blast.ret, n) # {}) <=> (0 <= d /\ d <= days)
                          /\ \A i \in EntriesOf(blast.ret, n) :
                                /\ blast.ret[i].congratulation_date = strftime_dmY(day)
                                /\ date_weekday(Birthday_date(blast.ret[i].congratulation_date))
                                        \in 0..4

\* C12, the birthday of February 29th in a year that is not a leap year: the
\* call raises, and the record whose birthday is tomorrow is not reported
C12_LeapDayBirthdayRaises ==
    /\ blast.op = "get_upcoming_birthdays"
    /\ blast.exc = "ValueError"
    /\ ~IsLeap(blast.args[1].year)
    /\ \E n \in DOMAIN book :
            /\ book[n].birthday # PyNone
            /\ book[n].birthday.value.month = 2
            /\ book[n].birthday.value.day = 29
    /\ \E n \in DOMAIN book :
            /\ book[n].birthday # PyNone
            /\ date_toordinal(Occurrence(book[n].birthday, blast.args[1]))
                    = date_toordinal(blast.args[1]) + 1
            /\ blast.args[2] >= 1

\* two characters that are the same letter, whatever the case
SameLetter(c, d) ==
    \/ c = d
    \/ {c, d} \in { {"a", "A"}, {"b", "B"}, {"k", "K"} }

\* q is a substring of s when case is ignored
InIgnoringCase(q, s) ==
    \E k \in 0..(Len(s) - Len(q)) : \A i \in 1..Len(q) : SameLetter(q[i], s[k + i])

\* the query is in the name, the email, the address or one of the phones
Matches(rec, query) ==
    \/ InIgnoringCase(query, rec.name.value)
    \/ rec.email # PyNone /\ InIgnoringCase(query, rec.email.value)
    \/ rec.address # PyNone /\ InIgnoringCase(query, rec.address.value)
    \/ \E i \in 1..Len(rec.phones) : InIgnoringCase(query, rec.phones[i].value)

\* C13: search(query) returns exactly the records that have the query, case
\* ignored, in the name, the email, the address or a phone: every such record
\* once, no other record, and the book is as it was.
C13_SearchReturnsTheMatches ==
    blast.op = "search" =>
        /\ blast.exc = ""
        /\ book = bprev
        /\ \A n \in DOMAIN book :
                IF Matches(book[n], blast.args[1])
                THEN Cardinality({i \in 1..Len(blast.ret) : blast.ret[i] = book[n]}) = 1
                ELSE \A i \in 1..Len(blast.ret) : blast.ret[i] # book[n]
        /\ \A i \in 1..Len(blast.ret) : \E n \in DOMAIN book : blast.ret[i] = book[n]

\* a query in upper case found one record by its email in lower case and
\* left out the other record of the book
C13_Witness ==
    /\ blast.op = "search"
    /\ blast.args[1] = <<"K">>
    /\ Len(blast.ret) = 1
    /\ Cardinality(DOMAIN book) = 2
    /\ blast.ret[1].address = PyNone
    /\ blast.ret[1].email # PyNone
    /\ str_in(<<"k">>, blast.ret[1].email.value)

\* C14: after any calls of add_phone, edit_phone and remove_phone, those that
\* raise included, every phone of every record is a string of exactly ten
\* decimal digits, and a call that raises leaves the phones as they were.
C14_PhonesAreTenDecimalDigits ==
    /\ \A n \in DOMAIN book : \A i \in 1..Len(book[n].phones) :
            TenDecimalDigits(book[n].phones[i].value)
    /\ (blast.op \in {"add_phone", "edit_phone", "remove_phone"} /\ blast.exc # "") =>
            book = bprev

\* C14, the number of ten superscript digits: add_phone appends it to the
\* phones of a record
C14_SuperscriptPhoneIsStored ==
    /\ blast.op = "add_phone"
    /\ blast.exc = ""
    /\ blast.args[1] = PhoneSuperscript
    /\ book[blast.name].phones[Len(book[blast.name].phones)].value = PhoneSuperscript
    /\ ~TenDecimalDigits(PhoneSuperscript)
    /\ PhoneValues(bprev[blast.name]) = <<Phone1>>
    /\ PhoneValues(book[blast.name]) = <<Phone1, PhoneSuperscript>>

(***************************************************************************)
(* Properties of the keys of the NoteBook                                  *)
(***************************************************************************)
\* C15: after any calls of add_note, edit_note and delete_note and any load
\* of a persisted document, the note stored under key k has id k, also when
\* one Note object was added twice and when a key of the document is not the
\* id written in the note's document.
C15_KeyIsNoteId ==
    \A k \in Keys(notebook) : NoteAt(notebook, k).id = k

\* C15, the Note added twice, saved and loaded: the document has under "1" a
\* note of id 2, and from_dict stores under key 1 a note of its own with id 2
C15_LoadedKeyDiffersFromId ==
    /\ nlast.op = "from_dict"
    /\ {1, 2} \subseteq Keys(notebook)
    /\ notebook.data[1] # notebook.data[2]
    /\ NoteAt(notebook, 1).id = 2
    /\ NoteBook_to_dict(nprev).notes[<<"1">>].id = 2

====
